---- MODULE Spec2Model ----
(***************************************************************************)
(* The render loop of rust-mold (src/src/main.rs): the tick closure passed *)
(* to start_loop, the event-loop driver start_loop, the bounded beat       *)
(* channel fed by the beat-detector thread, and the slime-mould engine's   *)
(* transition interface as the loop uses it.                               *)
(*                                                                         *)
(* Simulated time is f32 in the source.  Every time value the loop ever    *)
(* forms is a sum of 0.02 steps and of knob values v/127, so time is       *)
(* counted here in units of 1/6350: 0.02 = 127, 0.1 = 635, 0.2 = 1270,     *)
(* 1.0 = 6350, v/127 = 50*v.  Arithmetic is exact in these units; f32      *)
(* rounding of the sums is not modelled.                                   *)
(*                                                                         *)
(* A preset is represented by one scalar parameter: catalog entry i is     *)
(* the value i * ParamScale, a blend is the linear interpolation of two    *)
(* such values.                                                            *)
(***************************************************************************)
EXTENDS Integers, Sequences, FiniteSets, TLC

\* ------------------------------------------------------------ constants

\* 1.0 of simulated time, in model units (duration of a load / randomize
\* transition, main.rs:179 and main.rs:203).
TimeUnit == 6350
\* u_time += 0.02
Step == 127
\* (u_time - beat_start_time) > 0.2
HoldWindow == 1270
\* transition_preset(non_beat_preset, beat_preset, u_time, 0.2)
BeatDuration == 1270
\* transition_preset(beat_preset, non_beat_preset, u_time, 0.1)
ReturnDuration == 635
\* u_time = value as f32 / 127.0 : one knob unit
KnobUnit == 50
\* beat_start_time = -1.0
NotActive == -6350
\* sync_channel(64)
BeatCapacity == 64
\* the catalog addressed by Preset::new (indices 0..9)
NumPresets == 10

\* --------------------------------------------------------------- bounds

\* resolution of the scalar that stands for a preset's parameters
ParamScale == 4
\* rand::random() yields catalog entries 0..MaxRandomIndex
MaxRandomIndex == 1
\* beats the detector may have queued, in the specifications that do not
\* study the channel itself
MaxPending == 1
\* ticks the beat specification follows the loop for
MaxTicks == 13
\* ticks the general specification follows the loop for
MaxTicksGeneral == 2
\* ticks the takeover specification follows the loop for
MaxTicksTakeover == 2
\* ticks the key and pad specifications follow the loop for
MaxTicksInput == 1
\* ticks the specification of the full 64-slot channel follows the loop for
MaxTicksChan == 1
\* largest pad index enumerated by the pad specification
MaxPad == 27
\* ticks the excursion specification counts; it follows the loop further for
\* as long as simulated time stands still
MaxTicksExcursion == 3
\* ticks the same-tick specification follows the loop for
MaxTicksSameTick == 2
\* ticks the time specification follows the loop for
MaxTicksTime == 2
\* ticks the driver specification follows the loop for
MaxTicksLoop == 2
\* events without a static form the driver specification lets arrive
\* between two callback runs
MaxIgnored == 1

VARIABLES
    \* ---- state captured by the tick closure (main.rs:69-79)
    u_time, u_time_takeover, beat_start_time, beat_preset, non_beat_preset,
    fullscreen,
    \* ---- the engine's transition and the last time handed to it
    tr, eng_now,
    \* ---- the beat channel and the detector thread
    chan, producer,
    \* ---- start_loop: the buffer, the control flow and the deadline of its
    \* WaitUntil, the next frame time (the number of the callback run that set
    \* it; 0 is the Instant::now() of main.rs:277); history only: received,
    \* the events the closure was called with since the last callback run
    \* returned, and wake, the cause of the last NewEvents
    events_buffer, control_flow, next_frame_time, deadline, received, wake,
    \* ---- position inside the running callback, and its locals
    pc, got_beat, action,
    \* ---- the number of callback runs so far (history only)
    ticks,
    \* ---- observations of the tick in progress (history only)
    \* flags: the locals of main.rs:99-111 after decoding; in_midi: the MIDI
    \* batch drained; installed: the transition_preset calls; calls: the other
    \* engine and display calls; drawn, updated: draw and update have run;
    \* first_poll: what the drain's first poll of the channel found ("none"
    \* before it, then "empty" or "beats"); left_at_end: notifications in the
    \* channel when the drain stopped; drawn_with: what the draw used;
    \* prev_end: the state at the end of the previous tick
    flags, in_midi, installed, calls, drawn, updated, first_poll, left_at_end,
    drawn_with, prev_end,
    \* ---- observations of the beat excursion (history only):
    \* excursion: a beat transition was installed and no return since;
    \* origin: the preset in effect before the first beat of the excursion;
    \* last_beat: the time and the preset in effect when the last beat was handled;
    \* last_load: the number of the last load processed, -1 when none or when
    \* a randomize-preset was processed later
    excursion, origin, last_beat, last_load

progVars == <<u_time, u_time_takeover, beat_start_time, beat_preset,
              non_beat_preset, fullscreen, tr, eng_now>>
chanVars == <<chan, producer>>
loopVars == <<events_buffer, control_flow, next_frame_time, deadline, received, wake>>
tickObs == <<flags, in_midi, installed, calls, drawn, updated,
             first_poll, left_at_end, drawn_with, prev_end>>
beatObs == <<excursion, origin, last_beat, last_load>>
vars == <<progVars, chanVars, loopVars, pc, got_beat, action, ticks, tickObs, beatObs>>

\* ------------------------------------------------------- preset model

\* Preset::new(PresetName::from_u32(n)): index reduced modulo the catalog.
PresetNew(n) == (n % NumPresets) * ParamScale

\* rand::random::<Preset>(): a catalog entry.
RandomPresets == { PresetNew(i) : i \in 0..MaxRandomIndex }

\* lerp(source, dest, clamp((now - start) / duration, 0, 1))
Effective(t, now) ==
    IF t.dur = 0 THEN t.to
    ELSE LET e == now - t.start
         IN  IF e <= 0 THEN t.from
             ELSE IF e >= t.dur THEN t.to
             ELSE t.from + ((t.to - t.from) * e) \div t.dur

\* The engine: [tr, now].  get_preset() is the effective preset at the last
\* time the engine was given.
GetPreset(eng) == Effective(eng.tr, eng.now)

\* transition_preset(from, to, now, duration)
TransitionPreset(from, to, now, dur) ==
    [tr |-> [from |-> from, to |-> to, start |-> now, dur |-> dur], now |-> now]

\* ------------------------------------------------------------- inputs

WinEvent(w, ev, st, vk, sc) ==
    [kind |-> "Window", window |-> w, event |-> ev, state |-> st,
     vk |-> vk, scancode |-> sc]

KeyEvent(w, st, vk, sc) == WinEvent(w, "KeyboardInput", st, vk, sc)

\* A physical key: virtual key code and scancode as the platform pairs them.
KeyTable ==
    { <<"Escape", 1>>, <<"Key1", 2>>, <<"Key2", 3>>, <<"Key3", 4>>,
      <<"Key4", 5>>, <<"Key5", 6>>, <<"Key6", 7>>, <<"Key7", 8>>,
      <<"Key8", 9>>, <<"Key9", 10>>, <<"Key0", 11>>, <<"Minus", 12>>,
      <<"Back", 14>>, <<"R", 19>>, <<"P", 25>>, <<"Return", 28>>,
      <<"A", 30>>, <<"S", 31>>, <<"C", 46>>, <<"None", 0>> }

CloseRequested(w) == WinEvent(w, "CloseRequested", "None", "None", 0)
Resized == WinEvent("primary", "Resized", "None", "None", 0)
DeviceEvent ==
    [kind |-> "Device", window |-> "None", event |-> "None",
     state |-> "None", vk |-> "None", scancode |-> 0]

\* Every event the key specification delivers.
AllEvents ==
    { KeyEvent("primary", "Pressed", k[1], k[2]) : k \in KeyTable }
    \cup { KeyEvent("primary", "Released", "Key3", 4),
           KeyEvent("primary", "Released", "Escape", 1),
           KeyEvent("other", "Pressed", "Escape", 1),
           KeyEvent("other", "Pressed", "Key3", 4),
           CloseRequested("primary"), CloseRequested("other"),
           Resized, DeviceEvent }

\* The buffers of the key specification: every event alone, and pairs in
\* which a later event could override or undo an earlier one.
KeyBuffers ==
    { <<e>> : e \in AllEvents }
    \cup { <<KeyEvent("primary", "Pressed", "Key3", 4),
             KeyEvent("primary", "Pressed", "Key5", 6)>>,
           <<KeyEvent("primary", "Pressed", "Key0", 11),
             KeyEvent("primary", "Released", "Key3", 4)>>,
           <<KeyEvent("primary", "Pressed", "Escape", 1),
             KeyEvent("primary", "Pressed", "A", 30)>>,
           <<CloseRequested("primary"), Resized>> }

Pad(p) == [msg |-> "PadPressed", index |-> p, value |-> 100]
Knob(k, v) == [msg |-> "KnobChanged", index |-> k, value |-> v]
OtherMidi == [msg |-> "PadReleased", index |-> 0, value |-> 0]

\* Every MIDI message the pad specification delivers.
AllMidi ==
    { Pad(p) : p \in 0..MaxPad }
    \cup { Knob(k, v) : k \in {0, 1}, v \in {0, 64, 127} }
    \cup { OtherMidi }

\* The batches of the pad specification: every message alone.
PadBatches == { <<>> } \cup { <<m>> : m \in AllMidi }

\* The inputs of the general specification: recognised and unrecognised
\* events and messages, alone and in pairs.
SomeBuffers ==
    { <<KeyEvent("primary", "Pressed", "Key3", 4)>>,
      <<KeyEvent("primary", "Pressed", "A", 30)>>,
      <<KeyEvent("primary", "Pressed", "Minus", 12)>>,
      <<KeyEvent("primary", "Released", "Key3", 4)>>,
      <<KeyEvent("other", "Pressed", "Escape", 1)>>,
      <<CloseRequested("other")>>,
      <<KeyEvent("primary", "Pressed", "A", 30),
        KeyEvent("primary", "Released", "Escape", 1)>> }

SomeBatches ==
    { <<>>, <<Pad(2)>>, <<Pad(14)>>, <<Pad(15)>>, <<Pad(26)>>, <<Knob(1, 64)>>,
      <<Knob(0, 5)>>, <<OtherMidi>>, <<Pad(14), Knob(1, 0)>> }

\* ----------------------------------------------- the callback's decoding

\* main.rs:99-111: the locals of one tick.
NoFlags ==
    [action |-> "Continue", randomize_beat_preset |-> FALSE,
     toggle_fullscreen |-> FALSE, stop_event_loop |-> FALSE,
     randomize_preset |-> FALSE, regenerate_points |-> FALSE,
     backspace_pressed |-> FALSE, clear_textures |-> FALSE,
     save_preset |-> FALSE, load_preset_number |-> -1,
     load_beat_preset_number |-> -1]

\* main.rs:120-129: match input.virtual_keycode
KeyCodeFlags(f, vk) ==
    CASE vk = "Escape" -> [f EXCEPT !.stop_event_loop = TRUE]
      [] vk = "Return" -> [f EXCEPT !.toggle_fullscreen = TRUE]
      [] vk = "R" -> [f EXCEPT !.randomize_preset = TRUE]
      [] vk = "P" -> [f EXCEPT !.regenerate_points = TRUE]
      [] vk = "C" -> [f EXCEPT !.clear_textures = TRUE]
      [] vk = "S" -> [f EXCEPT !.save_preset = TRUE]
      [] vk = "Back" -> [f EXCEPT !.backspace_pressed = TRUE]
      [] OTHER -> f

\* The digit row with the scancode reduced by 2 instead of 1.
ScancodeFlagsOffByOne(f, sc) ==
    IF sc >= 2 /\ sc <= 11
    THEN [f EXCEPT !.load_preset_number = (sc - 2) % 10]
    ELSE f

\* main.rs:131-133: the digit row, by scancode
ScancodeFlags(f, sc) ==
    IF sc >= 2 /\ sc <= 11
    THEN [f EXCEPT !.load_preset_number = (sc - 1) % 10]
    ELSE f

\* main.rs:114-139: one event of the batch
HandleEvent(f, e) ==
    IF e.kind = "Window" /\ e.window = "primary"
    THEN CASE e.event = "CloseRequested" -> [f EXCEPT !.action = "Stop"]
           [] e.event = "KeyboardInput" ->
                IF e.state = "Pressed"
                THEN ScancodeFlags(KeyCodeFlags(f, e.vk), e.scancode)
                ELSE f
           [] OTHER -> f
    ELSE f

\* main.rs:113-140: for event in events
RECURSIVE HandleEvents(_, _)
HandleEvents(f, evs) ==
    IF evs = <<>> THEN f
    ELSE HandleEvents(HandleEvent(f, Head(evs)), Tail(evs))

\* The pad dispatch with the beat-preset range starting one pad early.
PadFlagsWideRange(f, pad) ==
    IF pad <= 9 THEN [f EXCEPT !.load_preset_number = pad]
    ELSE IF pad >= 15 /\ pad <= 25
         THEN [f EXCEPT !.load_beat_preset_number = (pad - 15) % 10]
    ELSE CASE pad = 10 -> [f EXCEPT !.clear_textures = TRUE]
           [] pad = 11 -> [f EXCEPT !.regenerate_points = TRUE]
           [] pad = 12 -> [f EXCEPT !.randomize_preset = TRUE]
           [] pad = 13 -> [f EXCEPT !.randomize_beat_preset = TRUE]
           [] OTHER -> f

\* main.rs:146-160: PadPressed(pad, _, _)
PadFlags(f, pad) ==
    IF pad <= 9 THEN [f EXCEPT !.load_preset_number = pad]
    ELSE IF pad >= 16 /\ pad <= 25
         THEN [f EXCEPT !.load_beat_preset_number = pad - 16]
    ELSE CASE pad = 10 -> [f EXCEPT !.clear_textures = TRUE]
           [] pad = 11 -> [f EXCEPT !.regenerate_points = TRUE]
           [] pad = 12 -> [f EXCEPT !.randomize_preset = TRUE]
           [] pad = 13 -> [f EXCEPT !.randomize_beat_preset = TRUE]
           [] OTHER -> f

\* The MIDI dispatch with every knob, not only knob 0, setting u_time.
HandleMidiAnyKnob(s, m) ==
    CASE m.msg = "PadPressed" -> [s EXCEPT !.f = PadFlags(s.f, m.index)]
      [] m.msg = "KnobChanged" ->
           [s EXCEPT !.u_time = m.value * KnobUnit, !.takeover = TRUE]
      [] OTHER -> s

\* main.rs:145-169: one MIDI message.  s = [f, u_time, takeover]
HandleMidi(s, m) ==
    CASE m.msg = "PadPressed" -> [s EXCEPT !.f = PadFlags(s.f, m.index)]
      [] m.msg = "KnobChanged" ->
           IF m.index = 0
           THEN [s EXCEPT !.u_time = m.value * KnobUnit, !.takeover = TRUE]
           ELSE s
      [] OTHER -> s

\* main.rs:143-170: for m in midi_channel.try_iter()
RECURSIVE HandleMidis(_, _)
HandleMidis(s, ms) ==
    IF ms = <<>> THEN s
    ELSE HandleMidis(HandleMidi(s, Head(ms)), Tail(ms))

\* ------------------------------------------- the callback's state changes

\* The closure's state as the steps of main.rs:172-263 thread it.
\* log: the transition_preset calls of this tick, in order;
\* done: the other engine / display calls of this tick.
Ctx(u, tk, bp, nbp, bst, eng, fs) ==
    [u_time |-> u, takeover |-> tk, beat_preset |-> bp, non_beat_preset |-> nbp,
     beat_start_time |-> bst, eng |-> eng, fullscreen |-> fs,
     log |-> <<>>, done |-> {}]

\* slime_mould.transition_preset(from, to, c.u_time, dur), observed as `kind`
Install(c, kind, from, to, dur) ==
    [c EXCEPT !.eng = TransitionPreset(from, to, c.u_time, dur),
              !.log = Append(c.log, [kind |-> kind, from |-> from, to |-> to,
                                     start |-> c.u_time, dur |-> dur])]

\* main.rs:173-175
StepRandomizeBeat(c, f, rb) ==
    IF f.randomize_beat_preset THEN [c EXCEPT !.beat_preset = rb] ELSE c

\* main.rs:178-181
StepRandomize(c, f, rp) ==
    IF f.randomize_preset
    THEN [Install(c, "randomize", GetPreset(c.eng), rp, TimeUnit)
             EXCEPT !.takeover = FALSE]
    ELSE c

\* main.rs:184-186
StepRegenerate(c, f) ==
    IF f.regenerate_points THEN [c EXCEPT !.done = @ \cup {"reset_points"}] ELSE c

\* main.rs:188-191
StepClear(c, f) ==
    IF f.clear_textures THEN [c EXCEPT !.done = @ \cup {"clear"}] ELSE c

\* main.rs:193-195
StepLoadBeat(c, f) ==
    IF f.load_beat_preset_number >= 0
    THEN [c EXCEPT !.beat_preset = PresetNew(f.load_beat_preset_number)]
    ELSE c

\* main.rs:197-207
StepLoad(c, f) ==
    IF f.load_preset_number >= 0
    THEN [Install(c, "load", GetPreset(c.eng), PresetNew(f.load_preset_number), TimeUnit)
             EXCEPT !.done = @ \cup {"reset_points"}, !.takeover = FALSE]
    ELSE c

\* main.rs:209-211
StepSave(c, f) ==
    IF f.save_preset THEN [c EXCEPT !.done = @ \cup {"save_preset"}] ELSE c

\* The beat controller with a return that does not mark the excursion
\* inactive.
StepBeatNoReset(c, gb) ==
    IF gb
    THEN LET nbp == GetPreset(c.eng)
         IN  Install([c EXCEPT !.beat_start_time = c.u_time,
                               !.non_beat_preset = nbp],
                     "beat", nbp, c.beat_preset, BeatDuration)
    ELSE IF c.beat_start_time > 0 /\ (c.u_time - c.beat_start_time) > HoldWindow
         THEN Install(c, "return", c.beat_preset, c.non_beat_preset, ReturnDuration)
         ELSE c

\* The beat controller with the hold window tested by >= instead of >.
StepBeatEarly(c, gb) ==
    IF gb
    THEN LET nbp == GetPreset(c.eng)
         IN  Install([c EXCEPT !.beat_start_time = c.u_time,
                               !.non_beat_preset = nbp],
                     "beat", nbp, c.beat_preset, BeatDuration)
    ELSE IF c.beat_start_time > 0 /\ (c.u_time - c.beat_start_time) >= HoldWindow
         THEN [Install(c, "return", c.beat_preset, c.non_beat_preset, ReturnDuration)
                  EXCEPT !.beat_start_time = NotActive]
         ELSE c

\* main.rs:214-225: the beat controller
StepBeat(c, gb) ==
    IF gb
    THEN LET nbp == GetPreset(c.eng)
         IN  Install([c EXCEPT !.beat_start_time = c.u_time,
                               !.non_beat_preset = nbp],
                     "beat", nbp, c.beat_preset, BeatDuration)
    ELSE IF c.beat_start_time > 0 /\ (c.u_time - c.beat_start_time) > HoldWindow
         THEN [Install(c, "return", c.beat_preset, c.non_beat_preset, ReturnDuration)
                  EXCEPT !.beat_start_time = NotActive]
         ELSE c

\* main.rs:226-229
StepScreenshot(c, f) ==
    IF f.backspace_pressed THEN [c EXCEPT !.done = @ \cup {"take_screenshot"}] ELSE c

\* main.rs:241-257
StepFullscreen(c, f) ==
    IF f.toggle_fullscreen
    THEN [c EXCEPT !.fullscreen = ~c.fullscreen, !.done = @ \cup {"set_fullscreen"}]
    ELSE c

\* The directive with the CloseRequested result overwritten.
DirectiveEscapeOnly(f) == IF f.stop_event_loop THEN "Stop" ELSE "Continue"

\* main.rs:259-263: the directive the tick returns
Directive(f) == IF f.stop_event_loop THEN "Stop" ELSE f.action

\* The changes with the beat controller run before the preset requests.
EffectsBeatFirst(c, f, gb, rb, rp) ==
    StepFullscreen(
      StepScreenshot(
        StepSave(
          StepLoad(
            StepLoadBeat(
              StepClear(
                StepRegenerate(
                  StepRandomize(
                    StepRandomizeBeat(
                      StepBeat(c, gb), f, rb), f, rp), f), f), f), f), f), f), f)

\* main.rs:172-257 in order
Effects(c, f, gb, rb, rp) ==
    StepFullscreen(
      StepScreenshot(
        StepBeat(
          StepSave(
            StepLoad(
              StepLoadBeat(
                StepClear(
                  StepRegenerate(
                    StepRandomize(
                      StepRandomizeBeat(c, f, rb), f, rp), f), f), f), f), f), gb), f), f)

\* --------------------------------------------------------------- state

NoBeat == [time |-> -1, preset |-> -1]

NoTransition(p) == [from |-> p, to |-> p, start |-> 0, dur |-> 0]

Kinds(log) == { log[i].kind : i \in 1..Len(log) }

\* main.rs:22-79: the state when start_loop is entered.
Init ==
    /\ u_time = 0
    /\ u_time_takeover = FALSE
    /\ beat_start_time = 0
    /\ beat_preset \in RandomPresets
    /\ \E p \in RandomPresets :
          /\ non_beat_preset = p
          /\ tr = NoTransition(p)
          /\ prev_end = [u_time |-> 0, takeover |-> FALSE, tr |-> NoTransition(p),
                          beat_preset |-> beat_preset, non_beat_preset |-> p,
                          beat_start_time |-> 0]
          /\ origin = p
    /\ eng_now = 0
    /\ fullscreen = FALSE
    /\ chan = 0
    /\ producer = "listening"
    /\ events_buffer = <<>>
    /\ control_flow = "Poll"
    /\ next_frame_time = 0
    /\ deadline = -1
    /\ received = <<>>
    /\ wake = "none"
    /\ pc = "wait"
    /\ got_beat = FALSE
    /\ action = "Continue"
    /\ ticks = 0
    /\ flags = NoFlags
    /\ in_midi = <<>>
    /\ installed = <<>>
    /\ calls = {}
    /\ drawn = FALSE
    /\ updated = FALSE
    /\ first_poll = "none"
    /\ left_at_end = 0
    /\ drawn_with = <<>>
    /\ excursion = FALSE
    /\ last_beat = NoBeat
    /\ last_load = -1

\* ----------------------------------------------- the beat-detector thread

\* main.rs:34: the detector's callback is entered with a beat.  The
\* specifications bound the detector: it detects while fewer than `limit`
\* notifications are queued.
Detect(limit) ==
    /\ producer = "listening"
    /\ chan < limit
    /\ producer' = "sending"
    /\ UNCHANGED <<progVars, chan, loopVars, pc, got_beat, action, ticks, tickObs, beatObs>>

\* A send that succeeds into a channel that is already full.
SendCompleteOverfull ==
    /\ producer = "sending"
    /\ chan <= BeatCapacity
    /\ chan' = chan + 1
    /\ producer' = "listening"
    /\ UNCHANGED <<progVars, loopVars, pc, got_beat, action, ticks, tickObs, beatObs>>

\* main.rs:35: beat_sender.send(bpm) returns once the channel has room.
SendComplete ==
    /\ producer = "sending"
    /\ chan < BeatCapacity
    /\ chan' = chan + 1
    /\ producer' = "listening"
    /\ UNCHANGED <<progVars, loopVars, pc, got_beat, action, ticks, tickObs, beatObs>>

\* ------------------------------------------------------------ start_loop

\* main.rs:278-312 for an event that is not a wake-up: it is buffered.
\* Bufs: the buffer contents the specification lets build up.
Deliver(Bufs) ==
    /\ pc = "wait"
    /\ control_flow # "Exit"
    /\ \E b \in Bufs :
          /\ Len(b) = Len(events_buffer) + 1
          /\ SubSeq(b, 1, Len(events_buffer)) = events_buffer
          /\ events_buffer' = b
          /\ received' = Append(received, b[Len(b)])
    /\ control_flow' = "WaitUntil"
    /\ deadline' = next_frame_time
    /\ UNCHANGED <<progVars, chanVars, next_frame_time, wake, pc, got_beat, action,
                   ticks, tickObs, beatObs>>

\* main.rs:278-312 for NewEvents with another cause (WaitCancelled, Poll):
\* nothing runs, nothing is buffered.
Skip ==
    /\ pc = "wait"
    /\ control_flow # "Exit"
    /\ wake' = "WaitCancelled"
    /\ control_flow' = "WaitUntil"
    /\ deadline' = next_frame_time
    /\ UNCHANGED <<progVars, chanVars, events_buffer, next_frame_time, received, pc,
                   got_beat, action, ticks, tickObs, beatObs>>

\* An event that has no static form (it borrows from the platform).
Borrowed == WinEvent("primary", "ScaleFactorChanged", "None", "None", 0)

\* main.rs:288-291: to_static() is None: the event is ignored.
Ignore ==
    /\ pc = "wait"
    /\ control_flow # "Exit"
    /\ Len(received) - Len(events_buffer) < MaxIgnored
    /\ received' = Append(received, Borrowed)
    /\ control_flow' = "WaitUntil"
    /\ deadline' = next_frame_time
    /\ UNCHANGED <<progVars, chanVars, events_buffer, next_frame_time, wake, pc,
                   got_beat, action, ticks, tickObs, beatObs>>

\* main.rs:280-283, 294-295, 81-83: NewEvents(Init | ResumeTimeReached): the
\* callback is entered.  The specifications follow `horizon` ticks.
StartTick(horizon) ==
    /\ pc = "wait"
    /\ control_flow # "Exit"
    /\ ticks < horizon
    /\ ticks' = ticks + 1
    /\ pc' = "drain"
    /\ got_beat' = FALSE
    /\ wake' = IF ticks = 0 THEN "Init" ELSE "ResumeTimeReached"
    /\ UNCHANGED <<progVars, chanVars, events_buffer, control_flow, next_frame_time,
                   deadline, received, action, tickObs, beatObs>>

\* StartTick for a specification that counts `horizon` ticks and follows the
\* loop further while takeover keeps simulated time still (the states then
\* repeat): main.rs:280-283, 294-295, 81-83.
StartTickFrozen(horizon) ==
    /\ pc = "wait"
    /\ control_flow # "Exit"
    /\ ticks < horizon \/ u_time_takeover
    /\ ticks' = IF ticks < horizon THEN ticks + 1 ELSE ticks
    /\ pc' = "drain"
    /\ got_beat' = FALSE
    /\ wake' = IF ticks = 0 THEN "Init" ELSE "ResumeTimeReached"
    /\ UNCHANGED <<progVars, chanVars, events_buffer, control_flow, next_frame_time,
                   deadline, received, action, tickObs, beatObs>>

\* main.rs:84-87: one iteration of for _bpm in beat_receiver.try_iter()
DrainOne ==
    /\ pc = "drain"
    /\ chan > 0
    /\ chan' = chan - 1
    /\ got_beat' = TRUE
    /\ first_poll' = IF first_poll = "none" THEN "beats" ELSE first_poll
    /\ UNCHANGED <<progVars, producer, loopVars, pc, action, ticks, flags, in_midi,
                   installed, calls, drawn, updated, left_at_end, drawn_with,
                   prev_end, beatObs>>

\* The drain stopping with one notification left in the channel.
DrainEndEarly ==
    /\ pc = "drain"
    /\ chan <= 1
    /\ pc' = "draw"
    /\ first_poll' = IF first_poll = "none" THEN (IF chan = 0 THEN "empty" ELSE "beats")
                      ELSE first_poll
    /\ left_at_end' = chan
    /\ UNCHANGED <<progVars, chanVars, loopVars, got_beat, action, ticks, flags,
                   in_midi, installed, calls, drawn, updated, drawn_with,
                   prev_end, beatObs>>

\* main.rs:84: try_iter() finds the channel empty
DrainEnd ==
    /\ pc = "drain"
    /\ chan = 0
    /\ pc' = "draw"
    /\ first_poll' = IF first_poll = "none" THEN (IF chan = 0 THEN "empty" ELSE "beats")
                      ELSE first_poll
    /\ left_at_end' = chan
    /\ UNCHANGED <<progVars, chanVars, loopVars, got_beat, action, ticks, flags,
                   in_midi, installed, calls, drawn, updated, drawn_with,
                   prev_end, beatObs>>

\* The advance with its takeover guard inverted.
AdvanceInverted(t, takeover) == IF takeover THEN t + Step ELSE t

\* The advance without its takeover guard.
AdvanceAlways(t, takeover) == t + Step

\* main.rs:94-96
Advance(t, takeover) == IF ~takeover THEN t + Step ELSE t

\* The draw placed after the advance of u_time.
DrawAfterAdvance ==
    /\ pc = "draw"
    /\ eng_now' = Advance(u_time, u_time_takeover)
    /\ drawn' = TRUE
    /\ drawn_with' = <<[u_time |-> Advance(u_time, u_time_takeover), tr |-> tr,
                        updated |-> updated]>>
    /\ pc' = "update"
    /\ UNCHANGED <<u_time, u_time_takeover, beat_start_time, beat_preset,
                   non_beat_preset, fullscreen, tr, chanVars, loopVars, got_beat,
                   action, ticks, flags, in_midi, installed, calls, updated,
                   first_poll, left_at_end, prev_end, beatObs>>

\* main.rs:89-92: draw with u_time, then finish (present)
Draw ==
    /\ pc = "draw"
    /\ eng_now' = u_time
    /\ drawn' = TRUE
    /\ drawn_with' = <<[u_time |-> u_time, tr |-> tr, updated |-> updated]>>
    /\ pc' = "update"
    /\ UNCHANGED <<u_time, u_time_takeover, beat_start_time, beat_preset,
                   non_beat_preset, fullscreen, tr, chanVars, loopVars, got_beat,
                   action, ticks, flags, in_midi, installed, calls, updated,
                   first_poll, left_at_end, prev_end, beatObs>>

\* main.rs:94-97: advance u_time, then slime_mould.update()
Update ==
    /\ pc = "update"
    /\ u_time' = Advance(u_time, u_time_takeover)
    /\ updated' = TRUE
    /\ pc' = "apply"
    /\ UNCHANGED <<u_time_takeover, beat_start_time, beat_preset, non_beat_preset,
                   fullscreen, tr, eng_now, chanVars, loopVars, got_beat, action,
                   ticks, flags, in_midi, installed, calls, drawn, first_poll,
                   left_at_end, drawn_with, prev_end, beatObs>>

\* main.rs:99-263: the events and the MIDI messages are decoded, then the
\* requested changes and the beat controller act; the directive is returned.
\* B: the batches midi_channel.try_iter() may yield.
Apply(B) ==
    /\ pc = "apply"
    /\ \E ms \in B :
         LET f0 == HandleEvents(NoFlags, events_buffer)
             s  == HandleMidis([f |-> f0, u_time |-> u_time,
                                takeover |-> u_time_takeover], ms)
             f  == s.f
             e0 == [tr |-> tr, now |-> eng_now]
             c0 == Ctx(s.u_time, s.takeover, beat_preset, non_beat_preset,
                       beat_start_time, e0, fullscreen)
         IN  \E rb \in (IF f.randomize_beat_preset THEN RandomPresets ELSE {beat_preset}),
                rp \in (IF f.randomize_preset THEN RandomPresets ELSE {0}) :
               LET c == Effects(c0, f, got_beat, rb, rp)
               IN  /\ u_time' = c.u_time
                   /\ u_time_takeover' = c.takeover
                   /\ beat_start_time' = c.beat_start_time
                   /\ beat_preset' = c.beat_preset
                   /\ non_beat_preset' = c.non_beat_preset
                   /\ fullscreen' = c.fullscreen
                   /\ tr' = c.eng.tr
                   /\ eng_now' = c.eng.now
                   /\ action' = Directive(f)
                   /\ flags' = f
                   /\ in_midi' = ms
                   /\ installed' = c.log
                   /\ calls' = c.done
                   /\ excursion' = IF "beat" \in Kinds(c.log) THEN TRUE
                                   ELSE IF "return" \in Kinds(c.log) THEN FALSE
                                   ELSE excursion
                   /\ origin' = IF "beat" \in Kinds(c.log) /\ ~excursion
                                THEN GetPreset(e0) ELSE origin
                   /\ last_beat' = IF "beat" \in Kinds(c.log)
                                   THEN [time |-> u_time, preset |-> GetPreset(e0)]
                                   ELSE last_beat
                   /\ last_load' = IF f.load_preset_number >= 0
                                   THEN f.load_preset_number
                                   ELSE IF f.randomize_preset THEN -1 ELSE last_load
    /\ pc' = "ret"
    /\ UNCHANGED <<chanVars, loopVars, got_beat, ticks, drawn, updated,
                   first_poll, left_at_end, drawn_with, prev_end>>

\* The return to start_loop without events_buffer.clear().
FinishKeepsBuffer ==
    /\ pc = "ret"
    /\ next_frame_time' = ticks
    /\ received' = <<>>
    /\ control_flow' = IF action = "Stop" THEN "Exit" ELSE "WaitUntil"
    /\ deadline' = IF action = "Stop" THEN deadline ELSE ticks
    /\ pc' = "wait"
    /\ got_beat' = FALSE
    /\ flags' = NoFlags
    /\ in_midi' = <<>>
    /\ installed' = <<>>
    /\ calls' = {}
    /\ drawn' = FALSE
    /\ updated' = FALSE
    /\ first_poll' = "none"
    /\ left_at_end' = 0
    /\ drawn_with' = <<>>
    /\ prev_end' = [u_time |-> u_time, takeover |-> u_time_takeover, tr |-> tr,
                     beat_preset |-> beat_preset, non_beat_preset |-> non_beat_preset,
                     beat_start_time |-> beat_start_time]
    /\ last_beat' = IF "return" \in Kinds(installed) THEN NoBeat ELSE last_beat
    /\ UNCHANGED <<progVars, chanVars, events_buffer, wake, action, ticks,
                   excursion, origin, last_load>>

\* main.rs:296-312: back in start_loop: the buffer is cleared and the
\* directive becomes the control flow.
Finish ==
    /\ pc = "ret"
    /\ next_frame_time' = ticks
    /\ events_buffer' = <<>>
    /\ received' = <<>>
    /\ control_flow' = IF action = "Stop" THEN "Exit" ELSE "WaitUntil"
    /\ deadline' = IF action = "Stop" THEN deadline ELSE ticks
    /\ UNCHANGED wake
    /\ pc' = "wait"
    /\ got_beat' = FALSE
    /\ flags' = NoFlags
    /\ in_midi' = <<>>
    /\ installed' = <<>>
    /\ calls' = {}
    /\ drawn' = FALSE
    /\ updated' = FALSE
    /\ first_poll' = "none"
    /\ left_at_end' = 0
    /\ drawn_with' = <<>>
    /\ prev_end' = [u_time |-> u_time, takeover |-> u_time_takeover, tr |-> tr,
                     beat_preset |-> beat_preset, non_beat_preset |-> non_beat_preset,
                     beat_start_time |-> beat_start_time]
    /\ last_beat' = IF "return" \in Kinds(installed) THEN NoBeat ELSE last_beat
    /\ UNCHANGED <<progVars, chanVars, action, ticks, excursion, origin, last_load>>

\* -------------------------------------------------------- specifications

\* The whole program over a short horizon, with a few inputs of every kind.
Next ==
    \/ Detect(MaxPending)
    \/ SendComplete
    \/ Deliver(SomeBuffers)
    \/ Skip
    \/ StartTick(MaxTicksGeneral)
    \/ DrainOne
    \/ DrainEnd
    \/ Draw
    \/ Update
    \/ Apply(SomeBatches)
    \/ Finish

Spec == Init /\ [][Next]_vars

\* The beat scenario: beats are the only input, over a horizon that lets an
\* excursion run its course.
NextBeat ==
    \/ Detect(MaxPending)
    \/ SendComplete
    \/ Skip
    \/ StartTick(MaxTicks)
    \/ DrainOne
    \/ DrainEnd
    \/ Draw
    \/ Update
    \/ Apply({<<>>})
    \/ Finish

SpecBeat == Init /\ [][NextBeat]_vars

\* Manual time takeover: the knob, and every action said to end or not to
\* end takeover, with the knob before and after a load in one tick.
TakeoverBuffers ==
    { <<KeyEvent("primary", "Pressed", "S", 31)>>,
      <<KeyEvent("primary", "Pressed", "Key1", 2)>> }

TakeoverBatches ==
    { <<>>, <<Knob(0, 5)>>, <<Pad(1)>>, <<Pad(12)>>, <<Pad(10)>>, <<Pad(11)>>,
      <<Pad(17)>>, <<Knob(0, 5), Pad(1)>>, <<Pad(1), Knob(0, 5)>> }

NextTakeover ==
    \/ Detect(MaxPending)
    \/ SendComplete
    \/ Deliver(TakeoverBuffers)
    \/ Skip
    \/ StartTick(MaxTicksTakeover)
    \/ DrainOne
    \/ DrainEnd
    \/ Draw
    \/ Update
    \/ Apply(TakeoverBatches)
    \/ Finish

SpecTakeover == Init /\ [][NextTakeover]_vars

\* The beat channel at its real capacity: the detector is unbounded, beats
\* are the only input.
NextChan ==
    \/ Detect(BeatCapacity + 1)
    \/ SendComplete
    \/ Skip
    \/ StartTick(MaxTicksChan)
    \/ DrainOne
    \/ DrainEnd
    \/ Draw
    \/ Update
    \/ Apply({<<>>})
    \/ Finish

SpecChan == Init /\ [][NextChan]_vars

\* The steps of the render thread: the event loop wakes the callback at every
\* frame deadline and the callback runs to its end.
TickChan ==
    \/ StartTick(MaxTicksChan)
    \/ DrainOne
    \/ DrainEnd
    \/ Draw
    \/ Update
    \/ Apply({<<>>})
    \/ Finish

\* Both threads are scheduled: the render thread keeps stepping, and a send
\* that has room completes.
FairSpecChan == SpecChan /\ WF_vars(TickChan) /\ WF_vars(SendComplete)

\* MIDI pads: every pad index, knobs, and beats, over one tick.
NextPads ==
    \/ Detect(MaxPending)
    \/ SendComplete
    \/ Skip
    \/ StartTick(MaxTicksInput)
    \/ DrainOne
    \/ DrainEnd
    \/ Draw
    \/ Update
    \/ Apply(PadBatches)
    \/ Finish

SpecPads == Init /\ [][NextPads]_vars

\* The keyboard and the window: every key of the table, close requests,
\* events of other windows, and beats.
NextKeys ==
    \/ Detect(MaxPending)
    \/ SendComplete
    \/ Deliver(KeyBuffers)
    \/ Skip
    \/ StartTick(MaxTicksInput)
    \/ DrainOne
    \/ DrainEnd
    \/ Draw
    \/ Update
    \/ Apply({<<>>})
    \/ Finish

SpecKeys == Init /\ [][NextKeys]_vars

\* Beat excursions under manual control: beats, the knob at both ends of
\* its range, a load by pad and a beat-preset selection.
ExcursionBatches ==
    { <<>>, <<Knob(0, 0)>>, <<Knob(0, 127)>>, <<Pad(3)>>, <<Pad(17)>> }

NextExcursion ==
    \/ Detect(MaxPending)
    \/ SendComplete
    \/ StartTickFrozen(MaxTicksExcursion)
    \/ DrainOne
    \/ DrainEnd
    \/ Draw
    \/ Update
    \/ Apply(ExcursionBatches)
    \/ Finish

SpecExcursion == Init /\ [][NextExcursion]_vars

\* The steps of the render thread in the excursion specification.
TickExcursion ==
    \/ StartTickFrozen(MaxTicksExcursion)
    \/ DrainOne
    \/ DrainEnd
    \/ Draw
    \/ Update
    \/ Apply(ExcursionBatches)
    \/ Finish

\* The render thread keeps ticking; the detector may fall silent.
FairSpecExcursion == SpecExcursion /\ WF_vars(TickExcursion)

\* Simulated time: the knob over its whole range, another knob, two knob-0
\* events in one batch, a load (which ends takeover), and beats.
TimeBatches ==
    { <<>>, <<Knob(0, 0)>>, <<Knob(0, 64)>>, <<Knob(0, 127)>>, <<Knob(1, 64)>>,
      <<Pad(3)>>, <<Knob(0, 127), Knob(0, 64)>>, <<Knob(0, 1), Knob(1, 127)>> }

NextTime ==
    \/ Detect(MaxPending)
    \/ SendComplete
    \/ StartTick(MaxTicksTime)
    \/ DrainOne
    \/ DrainEnd
    \/ Draw
    \/ Update
    \/ Apply(TimeBatches)
    \/ Finish

SpecTime == Init /\ [][NextTime]_vars

\* Several preset-changing inputs in one tick: randomize and load in both
\* batch orders, beat-preset selections, and the knob with them, which lets
\* the hold window of a beat of the first tick pass in the second.
SameTickBatches ==
    { <<>>, <<Pad(3)>>, <<Pad(12)>>, <<Pad(17)>>, <<Pad(13)>>,
      <<Pad(12), Pad(3)>>, <<Pad(3), Pad(12)>>,
      <<Knob(0, 127), Pad(3)>>, <<Knob(0, 127), Pad(12), Pad(3)>> }

NextSameTick ==
    \/ Detect(MaxPending)
    \/ SendComplete
    \/ StartTick(MaxTicksSameTick)
    \/ DrainOne
    \/ DrainEnd
    \/ Draw
    \/ Update
    \/ Apply(SameTickBatches)
    \/ Finish

SpecSameTick == Init /\ [][NextSameTick]_vars

\* The driver: events that are buffered, in both orders and twice, events
\* without a static form, wake-ups of every cause, and beats.
LoopBuffers ==
    { <<KeyEvent("primary", "Pressed", "A", 30)>>, <<Resized>>,
      <<KeyEvent("primary", "Pressed", "A", 30), Resized>>,
      <<Resized, KeyEvent("primary", "Pressed", "A", 30)>>,
      <<Resized, Resized>> }

NextLoop ==
    \/ Detect(MaxPending)
    \/ SendComplete
    \/ Deliver(LoopBuffers)
    \/ Ignore
    \/ Skip
    \/ StartTick(MaxTicksLoop)
    \/ DrainOne
    \/ DrainEnd
    \/ Draw
    \/ Update
    \/ Apply({<<>>})
    \/ Finish

SpecLoop == Init /\ [][NextLoop]_vars

\* ----------------------------------------------------------- claims

Installed(kind) == { i \in 1..Len(installed) : installed[i].kind = kind }

\* C1 (beat scenario, beats the only input): a tick that drained a beat at
\* simulated time T (u_time after that tick's advancement) installs exactly
\* the transition [preset in effect before the beat -> beat_preset, start T,
\* duration 0.2]; a return transition is [beat_preset -> the pre-beat preset,
\* start u_time, duration 0.1], is installed only at a tick with
\* u_time - T > 0.2, and is installed at the first such tick without a beat.
C1_BeatScenario ==
    pc = "ret" =>
      /\ got_beat =>
           /\ u_time = prev_end.u_time + Step
           /\ installed = <<[kind |-> "beat",
                             from |-> Effective(prev_end.tr, prev_end.u_time),
                             to |-> beat_preset, start |-> u_time,
                             dur |-> BeatDuration]>>
           /\ tr = [from |-> installed[1].from, to |-> beat_preset,
                    start |-> u_time, dur |-> BeatDuration]
           /\ last_beat.time = u_time
      /\ Installed("return") # {} =>
           /\ ~got_beat
           /\ installed = <<[kind |-> "return", from |-> beat_preset,
                             to |-> last_beat.preset, start |-> u_time,
                             dur |-> ReturnDuration]>>
           /\ tr.to = last_beat.preset /\ tr.dur = ReturnDuration
           /\ u_time - last_beat.time > HoldWindow
           /\ u_time >= last_beat.time + HoldWindow
      /\ (~got_beat /\ last_beat.time >= 0 /\ u_time - last_beat.time > HoldWindow)
           => Installed("return") # {}

\* C1's case: the return transition of an excursion whose beat was at T is
\* installed, eleven ticks later.
C1_Witness ==
    /\ pc = "ret"
    /\ Installed("return") # {}
    /\ last_beat.time > 0
    /\ u_time = last_beat.time + HoldWindow + Step

\* C2: during an excursion non_beat_preset stays the preset that was in
\* effect before the first beat of the excursion, and the return transition
\* leads back to that preset.
C2_SnapshotOnlyOnFirstBeat ==
    /\ excursion => non_beat_preset = origin
    /\ (pc = "ret" /\ Installed("return") # {}) => tr.to = origin

\* The inputs of a tick, as the claims name them.
KeyPresses(evs) ==
    { i \in 1..Len(evs) : /\ evs[i].kind = "Window"
                          /\ evs[i].window = "primary"
                          /\ evs[i].event = "KeyboardInput"
                          /\ evs[i].state = "Pressed" }
DigitPresses(evs) ==
    { i \in KeyPresses(evs) : evs[i].scancode \in 2..11 }
PadPresses(ms) == { j \in 1..Len(ms) : ms[j].msg = "PadPressed" }
LoadByNumber(evs, ms) ==
    \/ DigitPresses(evs) # {}
    \/ \E j \in PadPresses(ms) : ms[j].index \in 0..9
RandomizePreset(evs, ms) ==
    \/ \E i \in KeyPresses(evs) : evs[i].vk = "R"
    \/ \E j \in PadPresses(ms) : ms[j].index = 12
KnobZero(ms) == \E j \in 1..Len(ms) : ms[j].msg = "KnobChanged" /\ ms[j].index = 0

\* C3: a tick's advance step leaves u_time alone exactly when takeover was
\* on at the end of the previous tick and adds 0.02 to it otherwise;
\* takeover is switched on by a tick that processes a knob-0 event, switched
\* off by (and only by) a tick that processes a load by number or a
\* randomize-preset, and nothing else (clear, regenerate, save, beat-preset
\* selection, beats) changes it.
C3_Takeover ==
    /\ pc \in {"wait", "drain", "draw", "update"} => u_time = prev_end.u_time
    /\ pc = "apply" =>
          u_time = IF prev_end.takeover THEN prev_end.u_time
                   ELSE prev_end.u_time + Step
    /\ pc # "ret" => u_time_takeover = prev_end.takeover
    /\ pc = "ret" =>
          u_time_takeover =
             IF LoadByNumber(events_buffer, in_midi)
                \/ RandomizePreset(events_buffer, in_midi)
             THEN FALSE
             ELSE IF KnobZero(in_midi) THEN TRUE ELSE prev_end.takeover

\* C3's case: a tick ran its advance step under takeover, after a knob-0
\* event of an earlier tick, and u_time stayed at the knob's value.
C3_Witness ==
    /\ pc = "apply"
    /\ u_time_takeover
    /\ prev_end.takeover
    /\ u_time = 5 * KnobUnit
    /\ updated

\* C4: the drain of a tick stops only on an empty channel, so every
\* notification that was queued when it started has been received; if its
\* first poll found notifications (however many, up to the 64 the channel
\* holds) the tick installs exactly one beat transition, and if it found none
\* the tick installs no beat transition.
C4_DrainCollapses ==
    /\ pc \in {"draw", "update", "apply", "ret"} =>
          /\ first_poll \in {"empty", "beats"}
          /\ left_at_end = 0
          /\ got_beat = (first_poll = "beats")
    /\ pc = "ret" =>
          Cardinality(Installed("beat")) = (IF first_poll = "beats" THEN 1 ELSE 0)

\* C4's case: a tick whose drain found notifications has installed its one
\* beat transition.
C4_Witness ==
    /\ pc = "ret"
    /\ first_poll = "beats"
    /\ Cardinality(Installed("beat")) = 1
    /\ tr.dur = BeatDuration

\* The detector thread is blocked in send: the channel is full.
Blocked == producer = "sending" /\ chan = BeatCapacity

\* The render loop has stopped ticking (exit, or the end of the horizon).
Halted == pc = "wait" /\ (control_flow = "Exit" \/ ticks >= MaxTicksChan)

\* C5: the channel never holds more than 64 notifications, and a detector
\* blocked on the full channel is unblocked unless the render loop stops
\* ticking.
C5_BoundedChannel ==
    /\ [](chan <= BeatCapacity)
    /\ (Blocked ~> (~Blocked \/ Halted))

\* C5's case: the channel is full and the detector is blocked in send while
\* a tick is draining.
C5_Witness == Blocked /\ pc = "drain"

\* An effective preset of the catalog, as the claims name it.
CatalogPreset(i) == i * ParamScale

\* The effective preset when the tick's changes are applied: the one the
\* frame was drawn with.
PresetBefore == Effective(prev_end.tr, prev_end.u_time)

\* How many of the six pad requests the decoded locals hold.
Requests(f) ==
    Cardinality({ r \in {"load", "load_beat", "clear", "regenerate",
                         "randomize", "randomize_beat"} :
        \/ r = "load" /\ f.load_preset_number >= 0
        \/ r = "load_beat" /\ f.load_beat_preset_number >= 0
        \/ r = "clear" /\ f.clear_textures
        \/ r = "regenerate" /\ f.regenerate_points
        \/ r = "randomize" /\ f.randomize_preset
        \/ r = "randomize_beat" /\ f.randomize_beat_preset })

OnePad == Len(in_midi) = 1 /\ in_midi[1].msg = "PadPressed"

\* C6: a tick whose MIDI batch is one pad press p: p in 0..9 installs the
\* transition [effective preset -> catalog preset p, start u_time, duration
\* 1.0] (and, as part of the load, resets the points); p in 16..25 sets
\* beat_preset to catalog preset p-16 and installs no transition; 10, 11, 12,
\* 13 clear, regenerate the points, randomize the preset and randomize the
\* beat preset; every other pad does nothing; no pad sets more than one request.
C6_PadAddressing ==
    (pc = "ret" /\ OnePad) =>
      LET p == in_midi[1].index
          quiet == Installed("load") = {} /\ Installed("randomize") = {}
      IN  /\ Requests(flags) <= 1
          /\ p \in 0..9 =>
               /\ Installed("load") = {1}
               /\ installed[1] = [kind |-> "load", from |-> PresetBefore,
                                  to |-> CatalogPreset(p), start |-> u_time,
                                  dur |-> TimeUnit]
               /\ calls = {"reset_points"}
               /\ beat_preset = prev_end.beat_preset
          /\ p \in 16..25 =>
               /\ beat_preset = CatalogPreset(p - 16)
               /\ quiet /\ calls = {}
          /\ p = 10 => quiet /\ calls = {"clear"} /\ beat_preset = prev_end.beat_preset
          /\ p = 11 => quiet /\ calls = {"reset_points"} /\ beat_preset = prev_end.beat_preset
          /\ p = 12 =>
               /\ Installed("randomize") = {1} /\ Installed("load") = {}
               /\ installed[1].from = PresetBefore
               /\ installed[1].to \in RandomPresets
               /\ installed[1].start = u_time /\ installed[1].dur = TimeUnit
               /\ calls = {} /\ beat_preset = prev_end.beat_preset
          /\ p = 13 => quiet /\ calls = {} /\ beat_preset \in RandomPresets
          /\ p \notin (0..13) \cup (16..25) =>
               /\ flags = NoFlags /\ quiet /\ calls = {}
               /\ beat_preset = prev_end.beat_preset

\* C6's case: pad 25, the last of the beat-preset range, has set beat_preset
\* to catalog preset 9.
C6_Witness ==
    /\ pc = "ret" /\ OnePad /\ in_midi[1].index = 25
    /\ beat_preset = CatalogPreset(9)

\* The digit a scancode of the digit row stands for.
DigitOf(sc) == IF sc = 11 THEN 0 ELSE sc - 1

Last(S) == CHOOSE i \in S : \A j \in S : j <= i

\* C7: a tick requests the load of preset d exactly when its last press of a
\* digit-row key (scancode 2..11) was digit d, the number is in 0..9, the
\* load's transition leads to catalog preset d, and without such a press
\* (releases, other scancodes, other windows) no load is requested.
C7_DigitRow ==
    pc = "ret" =>
      LET d == DigitPresses(events_buffer)
      IN  /\ flags.load_preset_number \in -1..9
          /\ d = {} => flags.load_preset_number = -1 /\ Installed("load") = {}
          /\ d # {} =>
               /\ flags.load_preset_number = DigitOf(events_buffer[Last(d)].scancode)
               /\ \E i \in Installed("load") :
                     /\ Installed("load") = {i}
                     /\ installed[i].to = CatalogPreset(DigitOf(events_buffer[Last(d)].scancode))

\* C7's case: digit key 0 (scancode 11) was pressed and preset 0 is loaded.
C7_Witness ==
    /\ pc = "ret"
    /\ events_buffer = <<KeyEvent("primary", "Pressed", "Key0", 11)>>
    /\ flags.load_preset_number = 0
    /\ tr.to = CatalogPreset(0) /\ tr.dur = TimeUnit

MappedKeys == {"Escape", "Return", "R", "P", "C", "S", "Back"}

\* The inputs C8 calls unrecognised.
UnrecognisedEvent(e) ==
    \/ e.kind = "Window" /\ e.window # "primary"
    \/ /\ e.kind = "Window" /\ e.event = "KeyboardInput"
       /\ \/ e.state = "Released"
          \/ e.vk \notin MappedKeys /\ e.scancode \notin 2..11
UnrecognisedMidi(m) ==
    \/ m.msg = "PadPressed" /\ (m.index \in {14, 15} \/ m.index > 25)
    \/ m.msg = "KnobChanged" /\ m.index # 0
Unrecognised(evs, ms) ==
    /\ \A i \in 1..Len(evs) : UnrecognisedEvent(evs[i])
    /\ \A j \in 1..Len(ms) : UnrecognisedMidi(ms[j])
    /\ Len(evs) + Len(ms) > 0

\* What the beat controller alone makes of the state the previous tick left.
NoInputTick ==
    StepBeat(Ctx(Advance(prev_end.u_time, prev_end.takeover), prev_end.takeover,
                 prev_end.beat_preset, prev_end.non_beat_preset,
                 prev_end.beat_start_time,
                 [tr |-> prev_end.tr, now |-> prev_end.u_time], FALSE),
             got_beat)

\* C8: a tick whose inputs are all unrecognised queues no action, calls no
\* clear / reset / save / screenshot / fullscreen, returns Continue, and
\* leaves u_time, takeover, the presets and the transition as the tick
\* without input would.
C8_UnrecognisedIsNoOp ==
    (pc = "ret" /\ Unrecognised(events_buffer, in_midi)) =>
      /\ flags = NoFlags
      /\ action = "Continue"
      /\ calls = {}
      /\ u_time = NoInputTick.u_time
      /\ u_time_takeover = prev_end.takeover
      /\ beat_preset = prev_end.beat_preset
      /\ non_beat_preset = NoInputTick.non_beat_preset
      /\ beat_start_time = NoInputTick.beat_start_time
      /\ tr = NoInputTick.eng.tr
      /\ installed = NoInputTick.log

\* C8's case: a tick has processed unrecognised events and messages.
C8_Witness ==
    /\ pc = "ret"
    /\ Len(events_buffer) = 2 /\ Unrecognised(events_buffer, in_midi)
    /\ in_midi = <<Pad(14), Knob(1, 0)>>

StopRequested(evs) ==
    \E i \in 1..Len(evs) :
        /\ evs[i].kind = "Window" /\ evs[i].window = "primary"
        /\ \/ evs[i].event = "CloseRequested"
           \/ /\ evs[i].event = "KeyboardInput" /\ evs[i].state = "Pressed"
              /\ evs[i].vk = "Escape"

\* C9: the tick returns Stop exactly when its batch holds an Escape press or
\* a CloseRequested of the primary window; the control flow is Exit exactly
\* after a callback run that returned Stop, and never while a tick is in
\* progress; the directive is returned after the tick's draw and update.
C9_StopBetweenTicks ==
    /\ pc = "ret" =>
          /\ (action = "Stop") = StopRequested(events_buffer)
          /\ drawn /\ updated
    /\ pc = "wait" => ((control_flow = "Exit") = (action = "Stop"))
    /\ pc # "wait" => control_flow # "Exit"

\* C9's case: the loop has exited on a CloseRequested of the primary window.
C9_Witness ==
    /\ control_flow = "Exit"
    /\ pc = "wait"
    /\ ticks = 1

\* C10: within a tick the draw comes first and uses the u_time and the
\* transition the previous tick left, before this tick's update; the advance
\* of u_time and the update follow; presets, transition and takeover change
\* only after them, when the inputs are applied.
C10_TickOrder ==
    /\ pc \in {"wait", "drain", "draw"} => ~drawn /\ ~updated /\ drawn_with = <<>>
    /\ pc = "update" => drawn /\ ~updated
    /\ pc \in {"apply", "ret"} => drawn /\ updated
    /\ pc \in {"update", "apply", "ret"} =>
          drawn_with = <<[u_time |-> prev_end.u_time, tr |-> prev_end.tr,
                          updated |-> FALSE]>>
    /\ pc # "ret" =>
          /\ tr = prev_end.tr
          /\ u_time_takeover = prev_end.takeover
          /\ beat_preset = prev_end.beat_preset
          /\ non_beat_preset = prev_end.non_beat_preset
          /\ beat_start_time = prev_end.beat_start_time
    /\ pc \in {"wait", "drain", "draw", "update"} => u_time = prev_end.u_time
    /\ pc = "apply" => u_time = Advance(prev_end.u_time, prev_end.takeover)

\* C10's case: a tick that follows a preset load and a knob event has drawn
\* with the transition and the time they left.
C10_Witness ==
    /\ pc = "apply"
    /\ ticks = 2
    /\ drawn_with # <<>>
    /\ drawn_with[1].tr.dur = TimeUnit
    /\ drawn_with[1].u_time = Step

\* The excursion specification has stopped following the loop.
HaltedExcursion == pc = "wait" /\ ticks >= MaxTicksExcursion /\ ~u_time_takeover

\* The running tick has drained a further beat.
BeatTick == pc # "wait" /\ got_beat

\* C11: every beat excursion ends: once a beat has been handled, and as long
\* as ticks continue and no further beat is drained, a return transition is
\* eventually installed and the excursion is marked inactive
\* (beat_start_time = -1.0), also under takeover and with knob-set u_time.
C11_ExcursionEnds ==
    (excursion /\ pc = "wait")
       ~> \/ ~excursion /\ beat_start_time = NotActive
          \/ BeatTick
          \/ HaltedExcursion

\* The knob-0 events of a batch, by position.
KnobZeros(ms) ==
    { j \in 1..Len(ms) : ms[j].msg = "KnobChanged" /\ ms[j].index = 0 }

Quiescent ==
    /\ pc = "wait"
    /\ beat_start_time <= 0
    /\ chan = 0 /\ producer = "listening"

\* C13: a load is never lost: when preset N was loaded, no load or randomize
\* came later, and the beat controller has come to rest with no beat
\* pending, the transition in force leads to catalog preset N, whether the
\* load arrived while Idle, during an excursion or in the tick of a beat.
C13_LoadNotLost ==
    (Quiescent /\ last_load >= 0) => tr.to = CatalogPreset(last_load)

\* C14: at the end of every tick beat_start_time > 0.0 exactly when a beat
\* excursion is active (a beat transition was installed and no return
\* since), so the time recorded for a beat is never one the controller reads
\* as not active, also for u_time = 0.0 set by the knob.
C14_SentinelConsistent ==
    pc = "ret" => ((beat_start_time > 0) = excursion)

\* The effective preset when the i-th transition of the tick is installed:
\* for the first, what the transition left by the previous tick yields, at
\* the time of the last frame (what get_preset reports) or at the tick's
\* u_time; for a later one, the source of the transition installed just
\* before it, which has not run for any time yet.
EffectiveAtInstall(i) ==
    IF i = 1
    THEN { Effective(prev_end.tr, prev_end.u_time), Effective(prev_end.tr, u_time) }
    ELSE { installed[i - 1].from }

\* C15: every transition the loop installs (randomize, load, beat, return)
\* starts from the engine's effective preset at the moment it is installed;
\* in particular the source of a return transition, beat_preset, is the
\* effective preset at that moment, also after beat_preset was re-selected
\* or a preset was loaded during the excursion.
C15_ContinuousTransitions ==
    pc = "ret" =>
      \A i \in 1..Len(installed) : installed[i].from \in EffectiveAtInstall(i)

\* C16: the controller installs a return only for an excursion in progress
\* (a beat was handled and no return installed since), one at most and not
\* in the tick of a beat; so none from startup to the first beat, where
\* beat_start_time is 0.0, and none between a return and the next beat; a
\* beat transition is installed only by a tick that drained a beat.
C16_ReturnOncePerExcursion ==
    pc = "ret" =>
      /\ Cardinality(Installed("return")) <= 1
      /\ Installed("return") # {} =>
            /\ last_beat # NoBeat
            /\ prev_end.beat_start_time > 0
            /\ beat_start_time = NotActive
            /\ ~got_beat
      /\ Installed("beat") # {} => got_beat
      /\ (last_beat = NoBeat /\ ~got_beat) =>
            Installed("return") = {} /\ Installed("beat") = {}

\* C16's case: a tick after the return of an excursion: the hold window is
\* long past, the controller is idle and installs nothing.
C16_Witness ==
    /\ pc = "ret"
    /\ prev_end.beat_start_time = NotActive
    /\ prev_end.tr.dur = ReturnDuration
    /\ last_beat = NoBeat
    /\ ~got_beat
    /\ installed = <<>>

\* The place of a transition in the order the claim gives.
Rank(kind) ==
    CASE kind = "randomize" -> 1
      [] kind = "load" -> 2
      [] OTHER -> 3

\* The transition an installation puts in force.
InForce(x) == [from |-> x.from, to |-> x.to, start |-> x.start, dur |-> x.dur]

\* C17: the transitions of one tick are installed in the order randomize,
\* load by number, beat or return, one for each request and at most one by
\* the controller; each replaces the one before, so the transition in force
\* at the end of the tick is the last of them (the controller's if it acted,
\* else the load's, else the randomize's); the beat transition of a tick
\* leads to the beat_preset selected in that same tick.
C17_SameTickPrecedence ==
    pc = "ret" =>
      /\ \A i, j \in 1..Len(installed) :
            i < j => Rank(installed[i].kind) < Rank(installed[j].kind)
      /\ (Installed("randomize") # {}) = flags.randomize_preset
      /\ (Installed("load") # {}) = (flags.load_preset_number >= 0)
      /\ installed = <<>> => tr = prev_end.tr
      /\ installed # <<>> => tr = InForce(installed[Len(installed)])
      /\ got_beat =>
            /\ installed[Len(installed)].kind = "beat"
            /\ tr.to = beat_preset
            /\ flags.load_beat_preset_number >= 0 =>
                  tr.to = CatalogPreset(flags.load_beat_preset_number)

\* C17's case: a tick that randomized, loaded preset 3 and returned from an
\* excursion: three transitions installed, the return in force.
C17_Witness ==
    /\ pc = "ret"
    /\ Len(installed) = 3
    /\ installed[1].kind = "randomize"
    /\ installed[2].kind = "load" /\ installed[2].to = CatalogPreset(3)
    /\ installed[3].kind = "return"
    /\ tr.dur = ReturnDuration

\* The callback runs that have returned.
CompletedRuns == IF pc = "wait" THEN ticks ELSE ticks - 1

HasStaticForm(e) == e # Borrowed

\* What C18 says of the wake-ups, the buffer's emptiness and the deadline:
\* the callback runs only after an Init or ResumeTimeReached wake-up; the
\* buffer is empty when a callback run has returned and nothing has arrived
\* since; the next frame time is the one set by the last callback run and
\* the WaitUntil deadline is that time, whatever events came in.
WakeAndDeadline ==
    /\ pc # "wait" => wake \in {"Init", "ResumeTimeReached"}
    /\ (pc = "wait" /\ received = <<>>) => events_buffer = <<>>
    /\ next_frame_time = CompletedRuns
    /\ control_flow = "WaitUntil" => deadline = next_frame_time

====
